---------------------------- MODULE Spec2Model ----------------------------
(***************************************************************************)
(* Model of the annotation pipeline of pdf-extract-annotations:            *)
(*   src/src/extractors/annotation_extractor.py  (PDFAnnotationExtractor)  *)
(*                                                                         *)
(* Text is a sequence of one-character strings.  The decoder (PyMuPDF) is  *)
(* the environment: what it returns for a page or an annotation is data of *)
(* the document, and every accessor of it may raise.                       *)
(***************************************************************************)
EXTENDS Integers, Sequences, FiniteSets, TLC

(***************************************************************************)
(* Bounds of the model.                                                    *)
(***************************************************************************)
MaxPages == 5
MaxDocPages == 2
MaxAnnots == 2
MaxShortDoc == 2
MaxColl == 3
MaxAlias == 2
MaxRounds == 2

(***************************************************************************)
(* Characters.  DEG stands for the degree sign, ORD for the masculine      *)
(* ordinal sign, ENDASH for the en dash; each is one character of the text.*)
(***************************************************************************)
NL == "\n"
DEG == "deg"
ORD == "ord"
ENDASH == "endash"
Whitespace == {" ", NL}
Digits == {"0", "1", "2"}

(***************************************************************************)
(* Python string primitives.                                               *)
(***************************************************************************)
RECURSIVE lstrip(_)
lstrip(s) ==
    IF s # <<>> /\ Head(s) \in Whitespace THEN lstrip(Tail(s)) ELSE s

RECURSIVE rstrip(_)
rstrip(s) ==
    IF s # <<>> /\ s[Len(s)] \in Whitespace
    THEN rstrip(SubSeq(s, 1, Len(s) - 1))
    ELSE s

\* str.strip()
strip(s) == rstrip(lstrip(s))

\* sub occurs in s at 0-based offset i
OccursAt(s, sub, i) ==
    /\ i >= 0
    /\ i + Len(sub) <= Len(s)
    /\ \A k \in 1..Len(sub) : s[i + k] = sub[k]

\* the least element of a set of integers, or default when it is empty
MinOr(S, default) ==
    IF S = {} THEN default ELSE CHOOSE i \in S : \A j \in S : i <= j

\* str.find(sub, start): lowest 0-based offset >= start, -1 when absent
find(s, sub, start) ==
    MinOr({i \in start..Len(s) : OccursAt(s, sub, i)}, -1)

\* sub in s
contains(s, sub) == find(s, sub, 0) # -1

\* s[a:b] with 0 <= a <= b <= len(s)
slice(s, a, b) == SubSeq(s, a + 1, b)

(***************************************************************************)
(* The literals of _search_title_in_page.  The words of the canonical      *)
(* titles after the case number are single characters here: CEPREUNI for   *)
(* "Campus Cepre Uni", CEPU for "Campus Cepu", LOGEO for "Logeo Usuario    *)
(* con Google"; no operation of the code looks inside them.                *)
(***************************************************************************)
CEPREUNI == "CampusCepreUni"
CEPU == "CampusCepu"
LOGEO == "LogeoUsuarioConGoogle"
CPN == <<"C", "P", " ", "N">>
CP01 == CPN \o <<DEG, " ", "0", "1">>

exact_titles ==
    << CP01 \o <<":", " ", CEPREUNI, " ", ENDASH, " ", LOGEO>>,
       CP01 \o <<":", " ", CEPREUNI, " ", "-", " ", LOGEO>>,
       CP01 \o <<":", " ", CEPU, " ", "-", " ", LOGEO>>,
       CP01 \o <<":", " ", CEPU, " ", ENDASH, " ", LOGEO>>,
       CP01 \o <<" ", CEPREUNI, " ", ENDASH, " ", LOGEO>>,
       CP01 \o <<" ", CEPREUNI, " ", "-", " ", LOGEO>>,
       CP01 \o <<":", " ", CEPREUNI, " ", ENDASH, " ", LOGEO>> >>

\* element k of seq, or <<>> when k = 0
ElementOrEmpty(seq, k) == IF k = 0 THEN <<>> ELSE seq[k]

\* for title in exact_titles: if title in all_text: return title
FirstExactTitle(all_text) ==
    ElementOrEmpty(exact_titles,
        MinOr({k \in 1..Len(exact_titles) : contains(all_text, exact_titles[k])}, 0))

NotFound == [found |-> FALSE, title |-> <<>>]

\* if end_idx > start_idx: return all_text[start_idx:end_idx].strip()
CpnSlice(all_text, start_idx, end_idx) ==
    IF end_idx > start_idx
    THEN [found |-> TRUE, title |-> strip(slice(all_text, start_idx, end_idx))]
    ELSE NotFound

\* end_idx = all_text.find("\n", start_idx)
CpnFrom(all_text, start_idx) ==
    IF start_idx = -1 THEN NotFound
    ELSE CpnSlice(all_text, start_idx, find(all_text, <<NL>>, start_idx))

\* the "CP N" scan: text from the first "CP N" to the next newline
CpnLine(all_text) == CpnFrom(all_text, find(all_text, CPN, 0))

(***************************************************************************)
(* re.findall(r'CP\s*N[°º\s]\s*\d+[:\.]?.*?(?=\n|$)', all_text)            *)
(***************************************************************************)
\* offset after the longest run of characters of set cs starting at offset i
RECURSIVE SkipWhile(_, _, _)
SkipWhile(s, i, cs) ==
    IF i < Len(s) /\ s[i + 1] \in cs THEN SkipWhile(s, i + 1, cs) ELSE i

\* .*?(?=\n|$) from offset d: the match ends at the next newline or at the end
RegexLineEnd(s, e) == IF e = -1 THEN Len(s) ELSE e

\* \d+[:\.]? with the digits running from offset b to offset c
RegexAfterDigits(s, b, c) ==
    IF c = b THEN -1
    ELSE RegexLineEnd(s, find(s, <<NL>>,
             IF c < Len(s) /\ s[c + 1] \in {":", "."} THEN c + 1 ELSE c))

\* \s*\d+ from offset b
RegexDigits(s, b) == RegexAfterDigits(s, b, SkipWhile(s, b, Digits))

\* N[°º\s]\s* with N expected at offset a
RegexAfterCP(s, a) ==
    IF ~OccursAt(s, <<"N">>, a) THEN -1
    ELSE IF ~(a + 1 < Len(s) /\ s[a + 2] \in {DEG, ORD} \cup Whitespace) THEN -1
    ELSE RegexDigits(s, SkipWhile(s, a + 2, Whitespace))

\* end offset of the match starting at offset i, or -1 when none starts there
RegexMatchEnd(s, i) ==
    IF ~OccursAt(s, <<"C", "P">>, i) THEN -1
    ELSE RegexAfterCP(s, SkipWhile(s, i + 2, Whitespace))

\* the match that starts at offset i; i = -1 when findall is empty
RegexMatchFrom(all_text, i) ==
    IF i = -1 THEN NotFound
    ELSE [found |-> TRUE, title |-> slice(all_text, i, RegexMatchEnd(all_text, i))]

\* cp_patterns[0]: the leftmost match
FirstRegexMatch(all_text) ==
    RegexMatchFrom(all_text,
        MinOr({i \in 0..Len(all_text) : RegexMatchEnd(all_text, i) # -1}, -1))

(***************************************************************************)
(* Structured text of a page: blocks of lines of spans.  A block without   *)
(* "lines" is an image block.  bbox[1] is the top y coordinate.            *)
(***************************************************************************)
Span(text, size, flags) == [text |-> text, size |-> size, flags |-> flags]
TextBlock(y, lines) == [hasLines |-> TRUE, y |-> y, lines |-> lines]
ImageBlock(y) == [hasLines |-> FALSE, y |-> y, lines |-> <<>>]

RECURSIVE ConcatSpans(_)
ConcatSpans(spans) ==
    IF spans = <<>> THEN <<>> ELSE Head(spans).text \o ConcatSpans(Tail(spans))

\* block_text: the text of every span of every line, concatenated
RECURSIVE BlockText(_)
BlockText(lines) ==
    IF lines = <<>> THEN <<>> ELSE ConcatSpans(Head(lines)) \o BlockText(Tail(lines))

\* font_flags & 2 > 0
is_bold(flags) == (flags \div 2) % 2 = 1

\* the spans of a block kept by the second pass: font_size > 10 or bold
RECURSIVE TitleSpans(_)
TitleSpans(spans) ==
    IF spans = <<>> THEN <<>>
    ELSE IF Head(spans).size > 10 \/ is_bold(Head(spans).flags)
         THEN <<Head(spans)>> \o TitleSpans(Tail(spans))
         ELSE TitleSpans(Tail(spans))

RECURSIVE TitleLines(_)
TitleLines(lines) ==
    IF lines = <<>> THEN <<>> ELSE TitleSpans(Head(lines)) \o TitleLines(Tail(lines))

Unbound == [bound |-> FALSE, value |-> <<>>]

\* case_id_pattern = block_text.strip() when the block text contains "CP N"
CaseIdOf(block_text, otherwise) ==
    IF contains(block_text, CPN)
    THEN [bound |-> TRUE, value |-> strip(block_text)]
    ELSE otherwise

\* first pass over the blocks: case_id_pattern is assigned only when a block
\* with lines contains "CP N"; otherwise the local stays unbound
RECURSIVE FirstPass(_)
FirstPass(blocks) ==
    IF blocks = <<>> THEN Unbound
    ELSE IF ~Head(blocks).hasLines THEN FirstPass(Tail(blocks))
    ELSE CaseIdOf(BlockText(Head(blocks).lines), FirstPass(Tail(blocks)))

\* the candidate of one block: block_text holds the spans in a large or bold
\* font, so a non-blank block_text implies is_title and the marker words
\* ("Objetivo", ...) decide nothing
Candidate(block, block_text, annot_y) ==
    IF ~block.hasLines \/ block.y >= annot_y \/ block_text = <<>>
    THEN <<>>
    ELSE <<[text |-> block_text, distance |-> annot_y - block.y]>>

\* second pass: (text, distance) of every title candidate above annot_y
RECURSIVE SecondPass(_, _)
SecondPass(blocks, annot_y) ==
    IF blocks = <<>> THEN <<>>
    ELSE Candidate(Head(blocks), strip(ConcatSpans(TitleLines(Head(blocks).lines))),
                   annot_y)
         \o SecondPass(Tail(blocks), annot_y)

\* index of the first candidate at the least distance
ClosestIndex(potential_titles) ==
    MinOr({k \in 1..Len(potential_titles) :
              \A j \in 1..Len(potential_titles) :
                  potential_titles[k].distance <= potential_titles[j].distance}, 0)

\* potential_titles.sort(key=distance); potential_titles[0][0] or ""
ClosestTitle(potential_titles) ==
    IF potential_titles = <<>> THEN <<>>
    ELSE potential_titles[ClosestIndex(potential_titles)].text

(***************************************************************************)
(* Diagnostics written to stderr.                                          *)
(***************************************************************************)
ErrTitle == "Error finding nearby title"
ErrHighlight == "Error extracting highlighted text"
ErrAnnotation == "Error extracting annotation data"
ErrPDF == "Error processing PDF"

\* a page of the document as the decoder presents it
Page(textOk, text, blocks) == [textOk |-> textOk, text |-> text, blocks |-> blocks]

(***************************************************************************)
(* _search_title_in_page(page): the title and the diagnostics printed.     *)
(***************************************************************************)
Silent(t) == [title |-> t, diags |-> <<>>]
Failed == [title |-> <<>>, diags |-> <<ErrTitle>>]

\* lines 298-343: after the first pass over the blocks
AfterFirstPass(case_id_pattern, blocks, annot_y) ==
    IF ~case_id_pattern.bound THEN Failed
    ELSE IF case_id_pattern.value # <<>> THEN Silent(case_id_pattern.value)
    ELSE Silent(ClosestTitle(SecondPass(blocks, annot_y)))

\* lines 257-343: the strategies in their order
TitleStrategies(exact, scan, rx, blocks, annot_y) ==
    IF exact # <<>> THEN Silent(exact)
    ELSE IF scan.found THEN Silent(scan.title)
    ELSE IF rx.found THEN Silent(strip(rx.title))
    ELSE AfterFirstPass(FirstPass(blocks), blocks, annot_y)

SearchTitleInPage(page) ==
    IF ~page.textOk THEN Failed
    ELSE TitleStrategies(FirstExactTitle(page.text), CpnLine(page.text),
                         FirstRegexMatch(page.text), page.blocks, 0)

(***************************************************************************)
(* A raw annotation as the decoder presents it.                            *)
(*   infoOk    annot.info can be read                                      *)
(*   info      the metadata dictionary (a function over the keys present)  *)
(*   type      annot.type[1], "" when annot.type is falsy                  *)
(*   rect      "named": rect.x0 .. rect.y1 readable;                       *)
(*             "indexed": the named fields raise AttributeError, rect[i]   *)
(*                        is readable;                                     *)
(*             "none": AttributeError, then rect[i] raises;                *)
(*             "named_raises": the named fields raise another error;       *)
(*             "raises": annot.rect itself raises                          *)
(*   vertices  "some", "none" (falsy) or "raises"                          *)
(*   parentOk  annot.parent can be read                                    *)
(*   clipOk    page.get_text("dict", clip=rect) returns                    *)
(*   clip      the blocks it returns                                       *)
(***************************************************************************)
RectValue == [x0 |-> 1, y0 |-> 2, x1 |-> 3, y1 |-> 4]
EmptyDict == [k \in {} |-> 0]

\* dict.get(key, default)
Get(d, key, default) == IF key \in DOMAIN d THEN d[key] ELSE default

\* Squiggly is missing from the list
MarkupTypes_NoSquiggly == {"Highlight", "Underline", "StrikeOut"}

MarkupTypes == {"Highlight", "Underline", "StrikeOut", "Squiggly"}

\* the text of all spans of all blocks that have lines
RECURSIVE AllBlocksText(_)
AllBlocksText(blocks) ==
    IF blocks = <<>> THEN <<>>
    ELSE IF Head(blocks).hasLines
         THEN BlockText(Head(blocks).lines) \o AllBlocksText(Tail(blocks))
         ELSE AllBlocksText(Tail(blocks))

(***************************************************************************)
(* _extract_highlighted_text(annot)                                        *)
(***************************************************************************)
ExtractHighlightedText(annot) ==
    IF annot.vertices = "raises" THEN [text |-> <<>>, diags |-> <<ErrHighlight>>]
    ELSE IF annot.vertices = "none" THEN [text |-> <<>>, diags |-> <<>>]
    ELSE IF ~annot.parentOk \/ annot.rect = "raises" \/ ~annot.clipOk
         THEN [text |-> <<>>, diags |-> <<ErrHighlight>>]
    ELSE [text |-> strip(AllBlocksText(annot.clip)), diags |-> <<>>]

(***************************************************************************)
(* _find_nearby_title(annot), for an annotation on page index page_num of  *)
(* doc.  searched lists the page indices handed to _search_title_in_page.  *)
(***************************************************************************)
Max(a, b) == IF a >= b THEN a ELSE b

NoSearch == [title |-> <<>>, diags |-> <<>>, searched |-> <<>>]

\* title = search(page i); if title: return title; otherwise go on with rest
FirstHit(i, here, rest) ==
    IF here.title # <<>>
    THEN [title |-> here.title, diags |-> here.diags, searched |-> <<i>>]
    ELSE [title |-> rest.title, diags |-> here.diags \o rest.diags,
          searched |-> <<i>> \o rest.searched]

\* the title of the later page replaces the one found first
LastHit(i, here, rest) ==
    [title |-> IF rest.title # <<>> THEN rest.title ELSE here.title,
     diags |-> here.diags \o rest.diags,
     searched |-> <<i>> \o rest.searched]

\* the farthest page with a title wins instead of the nearest
RECURSIVE SearchPrevPages_FarthestWins(_, _, _)
SearchPrevPages_FarthestWins(doc, prev_page_num, stop) ==
    IF prev_page_num <= stop \/ prev_page_num < 0 THEN NoSearch
    ELSE LastHit(prev_page_num,
                 SearchTitleInPage(doc[prev_page_num + 1].content),
                 SearchPrevPages_FarthestWins(doc, prev_page_num - 1, stop))

\* for prev_page_num in range(first, stop, -1), stop exclusive
RECURSIVE SearchPrevPages(_, _, _)
SearchPrevPages(doc, prev_page_num, stop) ==
    IF prev_page_num <= stop THEN NoSearch
    ELSE IF prev_page_num < 0 THEN SearchPrevPages(doc, prev_page_num - 1, stop)
    ELSE IF ~doc[prev_page_num + 1].loadOk
         THEN [title |-> <<>>, diags |-> <<ErrTitle>>, searched |-> <<>>]
    ELSE FirstHit(prev_page_num,
                  SearchTitleInPage(doc[prev_page_num + 1].content),
                  SearchPrevPages(doc, prev_page_num - 1, stop))

\* the window reaches one page further back
FindNearbyTitle_FourBack(doc, annot, page_num) ==
    IF ~annot.parentOk
    THEN [title |-> <<>>, diags |-> <<ErrTitle>>, searched |-> <<>>]
    ELSE FirstHit(page_num,
                  SearchTitleInPage(doc[page_num + 1].content),
                  SearchPrevPages(doc, page_num - 1, Max(0, page_num - 4) - 1))

FindNearbyTitle(doc, annot, page_num) ==
    IF ~annot.parentOk
    THEN [title |-> <<>>, diags |-> <<ErrTitle>>, searched |-> <<>>]
    ELSE FirstHit(page_num,
                  SearchTitleInPage(doc[page_num + 1].content),
                  SearchPrevPages(doc, page_num - 1, Max(0, page_num - 3) - 1))

(***************************************************************************)
(* _extract_annotation_data(annot, page_num) with page_num 1-based.        *)
(* ok = FALSE is the None result.                                          *)
(***************************************************************************)
Dropped == [ok |-> FALSE, data |-> EmptyDict, diags |-> <<ErrAnnotation>>,
            searched |-> <<>>]

Coordinates(annot) ==
    IF annot.rect \in {"named", "indexed"} THEN RectValue ELSE EmptyDict

\* lines 74-128: the record before the enrichment steps
BaseRecord(annot, page_num) ==
    [page |-> page_num,
     type |-> IF annot.type # "" THEN annot.type ELSE "Unknown",
     contentAnnotation |-> Get(annot.info, "content", ""),
     author |-> Get(annot.info, "title", "Unknown"),
     subject |-> Get(annot.info, "subject", ""),
     creation_date |-> Get(annot.info, "creationDate", ""),
     modification_date |-> Get(annot.info, "modDate", ""),
     coordinates |-> Coordinates(annot)]

\* if value: annotation_data[key] = value
SetIfTruthy(data, key, value) ==
    IF value # <<>> THEN data @@ (key :> value) ELSE data

\* lines 130-134: the highlighted text of a markup annotation
HighlightOf(annot, annot_type) ==
    IF annot_type \in MarkupTypes
    THEN ExtractHighlightedText(annot)
    ELSE [text |-> <<>>, diags |-> <<>>]

\* lines 130-141: the record with the enrichment fields that were found
Enriched(base, hl, nt) ==
    [ok |-> TRUE,
     data |-> SetIfTruthy(SetIfTruthy(base, "highlighted_text", hl.text),
                          "nearby_title", nt.title),
     diags |-> hl.diags \o nt.diags,
     searched |-> nt.searched]

\* a failure of the title search drops the record
EnrichedOrDropped(base, hl, nt) ==
    IF nt.diags # <<>> THEN Dropped ELSE Enriched(base, hl, nt)

\* the exception of a failing title search escapes to the caller
ExtractAnnotationData_TitleEscapes(doc, annot, page_num) ==
    IF ~annot.infoOk \/ annot.rect \in {"raises", "named_raises"}
    THEN Dropped
    ELSE EnrichedOrDropped(BaseRecord(annot, page_num),
                           HighlightOf(annot, BaseRecord(annot, page_num).type),
                           FindNearbyTitle(doc, annot, page_num - 1))

ExtractAnnotationData(doc, annot, page_num) ==
    IF ~annot.infoOk \/ annot.rect \in {"raises", "named_raises"}
    THEN Dropped
    ELSE Enriched(BaseRecord(annot, page_num),
                  HighlightOf(annot, BaseRecord(annot, page_num).type),
                  FindNearbyTitle(doc, annot, page_num - 1))

(***************************************************************************)
(* Inputs: page contents, raw annotations and documents.                   *)
(***************************************************************************)
\* a span of body text (size 9, regular) and of a heading (size 12)
PlainSpan(text) == Span(text, 9, 0)
HeadingSpan(text, flags) == Span(text, 12, flags)

\* a page carrying the second canonical title
PageExact ==
    Page(TRUE, <<"a", NL>> \o exact_titles[2] \o <<NL>>,
         <<TextBlock(10, <<<<PlainSpan(<<"a">>)>>>>),
           TextBlock(20, <<<<HeadingSpan(exact_titles[2], 2)>>>>)>>)

\* a page with a case header line "CP N°2:b"
PageCaseLine ==
    Page(TRUE, <<" ">> \o CPN \o <<DEG, "2", ":", "b", " ", NL, "a", NL>>,
         <<TextBlock(10, <<<<HeadingSpan(CPN \o <<DEG, "2", ":", "b", " ">>, 0)>>>>),
           TextBlock(20, <<<<PlainSpan(<<"a">>)>>>>)>>)

\* a page without any case header, with a heading in a large font
PageNoTitle ==
    Page(TRUE, <<"h", NL, "a", " ", "b", NL>>,
         <<ImageBlock(5),
           TextBlock(10, <<<<HeadingSpan(<<"h">>, 0)>>>>),
           TextBlock(20, <<<<PlainSpan(<<"a", " ", "b">>)>>>>)>>)

\* a page whose text the decoder cannot produce
PageUnreadable == Page(FALSE, <<>>, <<>>)

\* a page whose header "CPN°1:c" only the regular expression matches
PageRegexOnly ==
    Page(TRUE, <<"a", " ", "C", "P", "N", DEG, "1", ":", "c", NL, "b", NL>>,
         <<TextBlock(10, <<<<PlainSpan(<<"a", " ", "C", "P", "N", DEG, "1", ":", "c">>)>>,
                           <<PlainSpan(<<"b">>)>>>>)>>)

\* a page whose header is broken over two lines: "CP N" occurs in the text
\* of the block but not in the plain text
PageBlockOnly ==
    Page(TRUE, <<"x", " ", "C", "P", " ", NL, "N", " ", "y", NL>>,
         <<TextBlock(10, <<<<PlainSpan(<<"x", " ", "C", "P", " ">>)>>,
                           <<PlainSpan(<<"N", " ", "y", " ">>)>>>>)>>)

PageContents == {PageExact, PageCaseLine, PageNoTitle, PageUnreadable}
AllPageContents == PageContents \cup {PageRegexOnly, PageBlockOnly}

FullInfo == [content |-> "note", title |-> "ana", subject |-> "subj",
             creationDate |-> "D:2024", modDate |-> "D:2025"]

ClipText == <<TextBlock(10, <<<<PlainSpan(<<" ", "h">>), PlainSpan(<<"i">>)>>,
                              <<PlainSpan(<<"!", NL>>)>>>>), ImageBlock(12)>>
ClipBlank == <<TextBlock(10, <<<<PlainSpan(<<" ", NL>>)>>>>)>>
ClipEmpty == <<>>

Annot(infoOk, info, type, rect, vertices, parentOk, clipOk, clip) ==
    [infoOk |-> infoOk, info |-> info, type |-> type, rect |-> rect,
     vertices |-> vertices, parentOk |-> parentOk, clipOk |-> clipOk,
     clip |-> clip]

AnnotTypes == {"Highlight", "Squiggly", "Text", ""}
RectKinds == {"named", "indexed", "none", "named_raises", "raises"}

\* what the enrichment steps meet: vertices, parent, clipped text
Enrichments ==
    { <<"some", TRUE, TRUE, ClipText>>,
      <<"some", TRUE, TRUE, ClipBlank>>,
      <<"some", TRUE, TRUE, ClipEmpty>>,
      <<"none", TRUE, TRUE, ClipText>>,
      <<"raises", TRUE, TRUE, ClipText>>,
      <<"some", FALSE, TRUE, ClipText>>,
      <<"some", TRUE, FALSE, ClipText>> }

RawAnnotations ==
    {Annot(TRUE, FullInfo, t, "named", e[1], e[2], e[3], e[4]) :
        t \in AnnotTypes, e \in Enrichments}
    \cup {Annot(TRUE, FullInfo, t, r, "some", TRUE, TRUE, ClipText) :
            t \in {"Highlight", "Text"}, r \in RectKinds}
    \cup {Annot(TRUE, EmptyDict, t, "named", "some", TRUE, TRUE, ClipText) :
            t \in {"Underline", "StrikeOut"}}
    \cup {Annot(FALSE, EmptyDict, "Text", "named", "some", TRUE, TRUE, ClipText)}

\* a page of the document: loadOk is doc[i], annotsOk is page.annots()
DocPage(loadOk, annotsOk, content, annots) ==
    [loadOk |-> loadOk, annotsOk |-> annotsOk, content |-> content,
     annots |-> annots]

SeqsUpTo(S, n) == UNION {[1..k -> S] : k \in 0..n}

(***************************************************************************)
(* State.                                                                  *)
(*   doc          the pages of the document on disk                       *)
(*   openOk       fitz.open succeeds on it                                 *)
(*   pc           position in extract_annotations                          *)
(*   handle       the document handle: "none", "open", "closed"            *)
(*   page_num     loop index of extract_annotations                        *)
(*   pending      the annotations of the page not yet visited              *)
(*   annotations  the list being collected                                 *)
(*   result       the list returned                                        *)
(*   stderr       the diagnostics printed                                  *)
(*   probe        the last call of _extract_annotation_data: its           *)
(*                arguments and what it returned                           *)
(*   analyzer     the AnnotationAnalyzer object: its three groupings       *)
(*                (self.annotations is the caller's list, annotations)     *)
(*   reply        the last method call on the analyzer and its outcome     *)
(*   files        the report artifacts on disk                             *)
(*   cli          one invocation of a command line entry point             *)
(*   search       the last call of _search_title_in_page on a page         *)
(***************************************************************************)
VARIABLES doc, openOk, pc, handle, page_num, pending, annotations, result,
          stderr, probe, analyzer, reply, files, cli, search

vars == <<doc, openOk, pc, handle, page_num, pending, annotations, result,
          stderr, probe, analyzer, reply, files, cli, search>>

\* the state outside extract_annotations
others == <<analyzer, reply, files, cli, search>>

NoProbe == [called |-> FALSE, annot |-> EmptyDict, page_num |-> 0, out |-> Dropped]

\* no analyzer has been constructed, no method called, no artifact on disk
NoAnalyzer == [built |-> FALSE, by_page |-> <<>>, by_type |-> <<>>, by_author |-> <<>>]
NoReply == [method |-> "none", raised |-> "none", value |-> <<>>]
Absent == [state |-> "absent", content |-> <<>>]
NoFiles == [dir |-> FALSE, statistics |-> Absent, highlighted_texts |-> Absent,
            annotations_by_page |-> Absent, report |-> Absent]
NoCli == [entry |-> "none"]
NoSearchCall == [called |-> FALSE]

OthersIdle ==
    /\ analyzer = NoAnalyzer
    /\ reply = NoReply
    /\ files = NoFiles
    /\ cli = NoCli
    /\ search = NoSearchCall

(***************************************************************************)
(* PDFAnnotationExtractor.extract_annotations                              *)
(***************************************************************************)
\* fitz.open(self.pdf_path) returns
OpenDocument ==
    /\ pc = "start"
    /\ openOk
    /\ handle' = "open"
    /\ page_num' = 0
    /\ pc' = "pages"
    /\ UNCHANGED <<doc, openOk, pending, annotations, result, stderr, probe>>
    /\ UNCHANGED others

\* the failure to open escapes to the caller, with no diagnostic
OpenFails_Raises ==
    /\ pc = "start"
    /\ ~openOk
    /\ pc' = "raised"
    /\ UNCHANGED <<doc, openOk, handle, page_num, pending, annotations, result,
                   stderr, probe>>
    /\ UNCHANGED others

\* fitz.open raises: except branch, return []
OpenFails ==
    /\ pc = "start"
    /\ ~openOk
    /\ stderr' = Append(stderr, ErrPDF)
    /\ result' = <<>>
    /\ pc' = "returned"
    /\ UNCHANGED <<doc, openOk, handle, page_num, pending, annotations, probe>>
    /\ UNCHANGED others

\* page = doc[page_num]; page_annotations = page.annots()
LoadPage ==
    /\ pc = "pages"
    /\ page_num < Len(doc)
    /\ doc[page_num + 1].loadOk
    /\ doc[page_num + 1].annotsOk
    /\ pending' = doc[page_num + 1].annots
    /\ pc' = "annots"
    /\ UNCHANGED <<doc, openOk, handle, page_num, annotations, result, stderr, probe>>
    /\ UNCHANGED others

\* doc[page_num] or page.annots() raises: except branch, return []
PageFails ==
    /\ pc = "pages"
    /\ page_num < Len(doc)
    /\ ~doc[page_num + 1].loadOk \/ ~doc[page_num + 1].annotsOk
    /\ stderr' = Append(stderr, ErrPDF)
    /\ result' = <<>>
    /\ pc' = "returned"
    /\ UNCHANGED <<doc, openOk, handle, page_num, pending, annotations, probe>>
    /\ UNCHANGED others

\* the effect of one iteration, given what _extract_annotation_data returned
Visited(annot, out) ==
    /\ annotations' = IF out.ok THEN Append(annotations, out.data) ELSE annotations
    /\ stderr' = stderr \o out.diags
    /\ probe' = [called |-> TRUE, annot |-> annot, page_num |-> page_num + 1,
                 out |-> out]

\* one iteration of "for annot in page_annotations"
VisitAnnotation ==
    /\ pc = "annots"
    /\ pending # <<>>
    /\ Visited(Head(pending), ExtractAnnotationData(doc, Head(pending), page_num + 1))
    /\ pending' = Tail(pending)
    /\ UNCHANGED <<doc, openOk, pc, handle, page_num, result>>
    /\ UNCHANGED others

\* the inner loop is exhausted: next page_num
NextPage ==
    /\ pc = "annots"
    /\ pending = <<>>
    /\ page_num' = page_num + 1
    /\ pc' = "pages"
    /\ UNCHANGED <<doc, openOk, handle, pending, annotations, result, stderr, probe>>
    /\ UNCHANGED others

\* doc.close()
CloseDocument ==
    /\ pc = "pages"
    /\ page_num = Len(doc)
    /\ handle' = "closed"
    /\ pc' = "closed"
    /\ UNCHANGED <<doc, openOk, page_num, pending, annotations, result, stderr, probe>>
    /\ UNCHANGED others

\* return annotations
Return ==
    /\ pc = "closed"
    /\ result' = annotations
    /\ pc' = "returned"
    /\ UNCHANGED <<doc, openOk, handle, page_num, pending, annotations, stderr, probe>>
    /\ UNCHANGED others

(***************************************************************************)
(* Spec: one run of extract_annotations over a document.                   *)
(***************************************************************************)
BuilderContents == {PageExact, PageNoTitle}

BuilderAnnots ==
    { Annot(TRUE, FullInfo, "Highlight", "named", "some", TRUE, TRUE, ClipText),
      Annot(TRUE, EmptyDict, "Text", "none", "none", FALSE, TRUE, ClipEmpty),
      Annot(FALSE, EmptyDict, "Text", "named", "some", TRUE, TRUE, ClipText) }

BuilderPages ==
    {DocPage(TRUE, TRUE, c, a) :
        c \in BuilderContents, a \in SeqsUpTo(BuilderAnnots, MaxAnnots)}
    \cup {DocPage(FALSE, TRUE, PageUnreadable, <<>>),
          DocPage(TRUE, FALSE, PageNoTitle, <<>>)}

Init ==
    /\ doc \in SeqsUpTo(BuilderPages, MaxDocPages)
    /\ openOk \in BOOLEAN
    /\ pc = "start"
    /\ handle = "none"
    /\ page_num = 0
    /\ pending = <<>>
    /\ annotations = <<>>
    /\ result = <<>>
    /\ stderr = <<>>
    /\ probe = NoProbe
    /\ OthersIdle

Next ==
    \/ OpenDocument
    \/ OpenFails
    \/ LoadPage
    \/ PageFails
    \/ VisitAnnotation
    \/ NextPage
    \/ CloseDocument
    \/ Return

Spec == Init /\ [][Next]_vars

(***************************************************************************)
(* SpecOpen: the same run over documents whose pages carry at most one     *)
(* annotation; what a document holds is never read when it fails to open.  *)
(***************************************************************************)
OpenPages ==
    {DocPage(TRUE, TRUE, c, a) :
        c \in BuilderContents, a \in {<<>>} \cup {<<x>> : x \in BuilderAnnots}}
    \cup {DocPage(FALSE, TRUE, PageUnreadable, <<>>),
          DocPage(TRUE, FALSE, PageNoTitle, <<>>)}

InitOpen ==
    /\ doc \in SeqsUpTo(OpenPages, MaxDocPages)
    /\ openOk \in BOOLEAN
    /\ pc = "start"
    /\ handle = "none"
    /\ page_num = 0
    /\ pending = <<>>
    /\ annotations = <<>>
    /\ result = <<>>
    /\ stderr = <<>>
    /\ probe = NoProbe
    /\ OthersIdle

SpecOpen == InitOpen /\ [][Next]_vars

(***************************************************************************)
(* SpecNorm: _extract_annotation_data applied to one raw annotation of the *)
(* last page of a document whose pages have all been loaded.               *)
(***************************************************************************)
NormPages == {DocPage(TRUE, TRUE, c, <<>>) : c \in PageContents}
ShortDocPages == {DocPage(TRUE, TRUE, c, <<>>) : c \in AllPageContents}

\* the annotations tried on the long documents: only annot.parent matters to
\* the title search
TitleProbes ==
    { Annot(TRUE, FullInfo, "Text", "named", "none", TRUE, TRUE, ClipEmpty),
      Annot(TRUE, FullInfo, "Highlight", "named", "some", TRUE, TRUE, ClipText),
      Annot(TRUE, FullInfo, "Highlight", "named", "some", FALSE, TRUE, ClipText) }

InitNorm ==
    /\ \/ /\ doc \in SeqsUpTo(NormPages, MaxPages) \ {<<>>}
          /\ pending \in {<<a>> : a \in TitleProbes}
       \/ /\ doc \in SeqsUpTo(ShortDocPages, MaxShortDoc) \ {<<>>}
          /\ pending \in {<<a>> : a \in RawAnnotations}
    /\ openOk = TRUE
    /\ pc = "annots"
    /\ handle = "open"
    /\ page_num = Len(doc) - 1
    /\ annotations = <<>>
    /\ result = <<>>
    /\ stderr = <<>>
    /\ probe = NoProbe
    /\ OthersIdle

NextNorm == VisitAnnotation

SpecNorm == InitNorm /\ [][NextNorm]_vars

(***************************************************************************)
(* Properties of extract_annotations (Spec).                               *)
(***************************************************************************)
\* the records of the annotations of one page whose normalization succeeds
RECURSIVE CollectPage(_, _, _)
CollectPage(d, annots, page_number) ==
    IF annots = <<>> THEN <<>>
    ELSE LET out == ExtractAnnotationData(d, Head(annots), page_number)
         IN (IF out.ok THEN <<out.data>> ELSE <<>>)
            \o CollectPage(d, Tail(annots), page_number)

\* the same for the first k pages, in page order
RECURSIVE Collect(_, _)
Collect(d, k) ==
    IF k = 0 THEN <<>> ELSE Collect(d, k - 1) \o CollectPage(d, d[k].annots, k)

\* the number of pages before the first page the decoder fails on
VisitedPages(d) ==
    LET bad == {k \in 1..Len(d) : ~d[k].loadOk \/ ~d[k].annotsOk}
    IN IF bad = {} THEN Len(d) ELSE (CHOOSE k \in bad : \A j \in bad : k <= j) - 1

\* the annotations of the first k pages whose normalization fails
FailedAnnots(d, k) ==
    {<<p, i>> \in (1..k) \X (1..MaxAnnots + 1) :
        /\ i <= Len(d[p].annots)
        /\ ~ExtractAnnotationData(d, d[p].annots[i], p).ok}

Count(seq, x) == Cardinality({k \in 1..Len(seq) : seq[k] = x})

\* C1: the returned list is ordered by page ascending (page = index + 1),
\* keeps the decoder's order within a page, and holds every annotation whose
\* normalization succeeded exactly once.
C1_OrderedAndComplete ==
    (pc = "returned" /\ openOk) =>
        /\ \A i, j \in 1..Len(result) : i < j => result[i].page <= result[j].page
        /\ result = Collect(doc, VisitedPages(doc))

\* C4: when the normalization of one annotation fails, that annotation is
\* omitted, a diagnostic is printed for it, and every other annotation of the
\* document is still normalized and returned.
C4_FailedAnnotationIsolated ==
    (pc = "returned" /\ openOk /\ FailedAnnots(doc, VisitedPages(doc)) # {}) =>
        /\ Count(stderr, ErrAnnotation)
              = Cardinality(FailedAnnots(doc, VisitedPages(doc)))
        /\ Len(result) = Len(Collect(doc, Len(doc)))
        /\ \A k \in 1..Len(result) : result[k] = Collect(doc, Len(doc))[k]

\* C5: a failure on one page does not abort the run: the annotations already
\* collected from the earlier pages are in the returned collection.
C5_PageFailureKeepsOtherPages ==
    (pc = "returned" /\ openOk /\ VisitedPages(doc) < Len(doc)) =>
        \A k \in 1..Len(Collect(doc, VisitedPages(doc))) :
            \E j \in 1..Len(result) : result[j] = Collect(doc, VisitedPages(doc))[k]

\* C6: every execution that opened the document has closed the handle by the
\* time it returns, also when page processing raised.
C6_HandleReleasedOnReturn ==
    (pc = "returned" /\ handle # "none") => handle = "closed"

(***************************************************************************)
(* Properties of _extract_annotation_data (SpecNorm).                      *)
(***************************************************************************)
\* page index of the annotation of the last call
N == probe.page_num - 1
Searched == probe.out.searched
SearchedSet == {Searched[k] : k \in 1..Len(Searched)}
Yields(i) == SearchTitleInPage(doc[i + 1].content).title # <<>>
TitleOf(i) == SearchTitleInPage(doc[i + 1].content).title
HasKey(key) == key \in DOMAIN probe.out.data
MaxOf(S) == CHOOSE x \in S : \A y \in S : y <= x
HasVisibleText(blocks) ==
    \E k \in 1..Len(AllBlocksText(blocks)) : AllBlocksText(blocks)[k] \notin Whitespace

\* C2 (as stated): the title search inspects only the page indices N, N-1 and
\* N-2 that are >= 0.
C2_SearchWithinTwoPagesBack ==
    probe.called => \A i \in SearchedSet : i >= 0 /\ i <= N /\ i >= N - 2

\* C2 (amended): the title search inspects only the page indices N, N-1, N-2
\* and N-3 that are >= 0: never a page more than 3 before the annotation's
\* own page and never a negative page index.
C2_SearchWithinThreePagesBack ==
    probe.called => \A i \in SearchedSet : i >= 0 /\ i <= N /\ i >= N - 3

\* an annotation of page index 4 whose search went back to page index 1 and
\* left page index 0 alone
C2_Witness ==
    probe.called /\ N = 4 /\ SearchedSet = {1, 2, 3, 4}

\* C3: when the annotation's own page yields no title, the preceding pages
\* are searched nearest first, the first one that yields a title supplies
\* nearby_title (page N-1 wins over page N-2), and when no searched page
\* yields a title the record has no nearby_title key.
C3_NearestPrecedingTitleWins ==
    (probe.called /\ probe.out.ok /\ probe.annot.parentOk /\ ~Yields(N)) =>
        /\ \A k \in 1..Len(Searched) : Searched[k] = N - (k - 1)
        /\ N >= 1 => N - 1 \in SearchedSet
        /\ (N >= 2 /\ ~Yields(N - 1)) => N - 2 \in SearchedSet
        /\ LET hits == {i \in SearchedSet : Yields(i)}
           IN IF hits = {} THEN ~HasKey("nearby_title")
              ELSE /\ HasKey("nearby_title")
                   /\ probe.out.data.nearby_title = TitleOf(MaxOf(hits))

\* pages N-1 and N-2 both carry a title, different ones, and page N none
C3_Witness ==
    /\ probe.called /\ probe.out.ok /\ probe.annot.parentOk
    /\ N >= 2
    /\ ~Yields(N) /\ Yields(N - 1) /\ Yields(N - 2)
    /\ TitleOf(N - 1) # TitleOf(N - 2)
    /\ HasKey("nearby_title")

\* C7: in every record, highlighted_text is present exactly when the type is
\* Highlight, Underline, StrikeOut or Squiggly and the extraction returned a
\* non-empty trimmed string; the key never maps to an empty string.
C7_HighlightedTextPresence ==
    (probe.called /\ probe.out.ok) =>
        LET a == probe.annot
            d == probe.out.data
            extracted == /\ a.vertices = "some" /\ a.parentOk /\ a.clipOk
                         /\ HasVisibleText(a.clip)
        IN /\ HasKey("highlighted_text")
                <=> (/\ d.type \in {"Highlight", "Underline", "StrikeOut", "Squiggly"}
                     /\ extracted)
           /\ HasKey("highlighted_text") =>
                /\ d.highlighted_text # <<>>
                /\ Head(d.highlighted_text) \notin Whitespace
                /\ d.highlighted_text[Len(d.highlighted_text)] \notin Whitespace

\* a Squiggly annotation over text: the key is present
C7_Witness ==
    /\ probe.called /\ probe.out.ok
    /\ probe.annot.type = "Squiggly"
    /\ HasKey("highlighted_text")

\* the enrichment steps run: the metadata and the rectangle were read
EnrichmentReached ==
    /\ probe.called
    /\ probe.annot.infoOk
    /\ probe.annot.rect \notin {"raises", "named_raises"}

\* C8: a miss or a failure inside highlighted-text extraction or title
\* location never drops the annotation: the record is returned with page >= 1
\* and type, and the enrichment field that failed is absent.
C8_EnrichmentNeverDrops ==
    EnrichmentReached =>
        LET a == probe.annot
        IN /\ probe.out.ok
           /\ HasKey("page") /\ probe.out.data.page >= 1
           /\ HasKey("type")
           /\ (a.vertices # "some" \/ ~a.parentOk \/ ~a.clipOk
                  \/ ~HasVisibleText(a.clip)) => ~HasKey("highlighted_text")
           /\ (~a.parentOk \/ \A i \in SearchedSet : ~Yields(i))
                  => ~HasKey("nearby_title")

\* a Highlight whose parent page cannot be read: both enrichment steps fail
C8_Witness ==
    /\ EnrichmentReached
    /\ probe.annot.type = "Highlight"
    /\ probe.annot.vertices = "some"
    /\ ~probe.annot.parentOk
    /\ probe.out.diags = <<ErrHighlight, ErrTitle>>

\* C9: when the rectangle accessor fails entirely, with any kind of error,
\* the record is still returned, with empty coordinates and the other fields
\* populated.
C9_RectFailureKeepsRecord ==
    (/\ probe.called
     /\ probe.annot.infoOk
     /\ probe.annot.rect \in {"none", "named_raises", "raises"}) =>
        /\ probe.out.ok
        /\ DOMAIN probe.out.data.coordinates = {}
        /\ probe.out.data.page = probe.page_num
        /\ probe.out.data.author = Get(probe.annot.info, "title", "Unknown")
        /\ probe.out.data.contentAnnotation = Get(probe.annot.info, "content", "")

\* C10: when title location or highlighted-text extraction only finds
\* nothing, the decoder not failing, no diagnostic is printed.
C10_MissIsSilent ==
    (/\ probe.called /\ probe.out.ok
     /\ probe.annot.vertices # "raises"
     /\ probe.annot.parentOk /\ probe.annot.clipOk
     /\ \A i \in SearchedSet : doc[i + 1].content.textOk
     /\ ~HasKey("nearby_title") \/ ~HasKey("highlighted_text")
           \/ \E i \in SearchedSet : ~Yields(i)) =>
        probe.out.diags = <<>>


(***************************************************************************)
(* AnnotationAnalyzer.  A dict is a sequence of [key, items] entries in    *)
(* insertion order, which is the order Python iterates it in.              *)
(***************************************************************************)
None == "None"

DictKeys(groups) == {groups[i].key : i \in 1..Len(groups)}

\* the entry is overwritten: each group keeps its last record only
AddToGroup_Overwrites(groups, k, annotation) ==
    IF k \in DictKeys(groups)
    THEN [i \in 1..Len(groups) |->
            IF groups[i].key = k
            THEN [key |-> k, items |-> <<annotation>>]
            ELSE groups[i]]
    ELSE Append(groups, [key |-> k, items |-> <<annotation>>])

\* result[k].append(annotation) on a defaultdict(list)
AddToGroup(groups, k, annotation) ==
    IF k \in DictKeys(groups)
    THEN [i \in 1..Len(groups) |->
            IF groups[i].key = k
            THEN [key |-> k, items |-> Append(groups[i].items, annotation)]
            ELSE groups[i]]
    ELSE Append(groups, [key |-> k, items |-> <<annotation>>])

\* the loop of _group_by_page, _group_by_type, _group_by_author
RECURSIVE GroupBy(_, _, _)
GroupBy(anns, field, n) ==
    IF n = 0 THEN <<>>
    ELSE AddToGroup(GroupBy(anns, field, n - 1), anns[n][field], anns[n])

group_by_page(anns) == GroupBy(anns, "page", Len(anns))
group_by_type(anns) == GroupBy(anns, "type", Len(anns))
group_by_author(anns) == GroupBy(anns, "author", Len(anns))

\* __init__: the groupings are computed once; self.annotations is the
\* caller's list itself
AnalyzerInit(anns) ==
    [built |-> TRUE, by_page |-> group_by_page(anns),
     by_type |-> group_by_type(anns), by_author |-> group_by_author(anns)]

\* a later entry of equal size replaces the best so far
MaxFrom_LastWins(groups, i, best) ==
    IF Len(groups[i].items) >= Len(groups[best].items) THEN i ELSE best

\* one step of max(..., key=lambda x: len(x[1])): only a strictly larger
\* entry replaces the best so far
MaxFrom(groups, i, best) ==
    IF Len(groups[i].items) > Len(groups[best].items) THEN i ELSE best

RECURSIVE MaxIndex(_, _)
MaxIndex(groups, n) ==
    IF n = 1 THEN 1 ELSE MaxFrom(groups, n, MaxIndex(groups, n - 1))

\* max(d.items(), key=...)[0] if d else None
MaxKey(groups) ==
    IF groups = <<>> THEN None ELSE groups[MaxIndex(groups, Len(groups))].key

\* {k: len(v) for k, v in d.items()}
Counts(groups) ==
    [i \in 1..Len(groups) |-> [key |-> groups[i].key, count |-> Len(groups[i].items)]]

\* get_statistics: the total is read from self.annotations, the rest from
\* the groupings
get_statistics(self_annotations, self) ==
    [total_annotations |-> Len(self_annotations),
     pages_with_annotations |-> Len(self.by_page),
     annotation_types |-> Counts(self.by_type),
     authors |-> Counts(self.by_author),
     page_with_most_annotations |-> MaxKey(self.by_page),
     most_common_type |-> MaxKey(self.by_type)]

\* d.get(k, [])
GroupOf(groups, k) ==
    IF k \in DictKeys(groups)
    THEN groups[CHOOSE i \in 1..Len(groups) : groups[i].key = k].items
    ELSE <<>>

\* "highlighted_text" in highlight and highlight["highlighted_text"]
CarriesText(highlight) ==
    /\ "highlighted_text" \in DOMAIN highlight
    /\ highlight["highlighted_text"] # <<>>

\* the entry appended for a highlight; highlight["content"] is a plain
\* subscript
HighlightEntry(highlight) ==
    [page |-> highlight["page"], text |-> highlight["highlighted_text"],
     author |-> highlight["author"],
     comment |-> highlight["content"]]

RECURSIVE HighlightEntries(_)
HighlightEntries(highlights) ==
    IF highlights = <<>> THEN <<>>
    ELSE (IF CarriesText(Head(highlights))
          THEN <<HighlightEntry(Head(highlights))>> ELSE <<>>)
         \o HighlightEntries(Tail(highlights))

\* a subscript raises KeyError on a record without the key
RaisesKeyError(highlights) ==
    \E i \in 1..Len(highlights) :
        /\ CarriesText(highlights[i])
        /\ ~({"page", "author", "content"} \subseteq DOMAIN highlights[i])

Returned(method, value) == [method |-> method, raised |-> "none", value |-> value]
Raised(method, error) == [method |-> method, raised |-> error, value |-> <<>>]

\* extract_highlighted_texts
extract_highlighted_texts(self) ==
    IF RaisesKeyError(GroupOf(self.by_type, "Highlight"))
    THEN Raised("extract_highlighted_texts", "KeyError")
    ELSE Returned("extract_highlighted_texts",
                  HighlightEntries(GroupOf(self.by_type, "Highlight")))

(***************************************************************************)
(* The collections given to the analyzer: records the normalizer produces  *)
(* for annotations of a two-page document, in any order.                   *)
(***************************************************************************)
AggDoc == <<DocPage(TRUE, TRUE, PageExact, <<>>), DocPage(TRUE, TRUE, PageNoTitle, <<>>)>>

AggAnnots ==
    { Annot(TRUE, FullInfo, "Highlight", "named", "some", TRUE, TRUE, ClipText),
      Annot(TRUE, EmptyDict, "Highlight", "named", "none", TRUE, TRUE, ClipEmpty),
      Annot(TRUE, FullInfo, "Text", "named", "none", TRUE, TRUE, ClipEmpty),
      Annot(TRUE, EmptyDict, "Underline", "named", "some", TRUE, TRUE, ClipText) }

AggRecords ==
    {ExtractAnnotationData(AggDoc, a, p).data : a \in AggAnnots, p \in 1..Len(AggDoc)}

(***************************************************************************)
(* The analyzer as a state machine: construction, the two queries, and     *)
(* generate_report one artifact at a time.  pc is "loaded" before          *)
(* construction, "ready" between calls, and names the next artifact        *)
(* inside generate_report.                                                 *)
(***************************************************************************)
Written(content) == [state |-> "written", content |-> content]
\* opened for writing and closed by the with statement before json.dump or
\* the remaining writes happened
Truncated == [state |-> "truncated", content |-> <<>>]

AnalyzerFrame == UNCHANGED <<doc, openOk, handle, page_num, pending, result,
                             stderr, probe, cli, search>>

\* AnnotationAnalyzer(annotations)
Construct ==
    /\ pc = "loaded"
    /\ analyzer' = AnalyzerInit(annotations)
    /\ pc' = "ready"
    /\ UNCHANGED <<annotations, reply, files>>
    /\ AnalyzerFrame

\* analyzer.get_statistics()
GetStatistics ==
    /\ pc = "ready"
    /\ reply' = Returned("get_statistics", get_statistics(annotations, analyzer))
    /\ UNCHANGED <<pc, annotations, analyzer, files>>
    /\ AnalyzerFrame

\* analyzer.extract_highlighted_texts()
ExtractHighlightedTexts ==
    /\ pc = "ready"
    /\ reply' = extract_highlighted_texts(analyzer)
    /\ UNCHANGED <<pc, annotations, analyzer, files>>
    /\ AnalyzerFrame

\* generate_report, lines 117-118: the directory
MakeReportDir ==
    /\ pc = "ready"
    /\ files' = [files EXCEPT !.dir = TRUE]
    /\ pc' = "statistics"
    /\ reply' = NoReply
    /\ UNCHANGED <<annotations, analyzer>>
    /\ AnalyzerFrame

\* lines 121-122: statistics.json
WriteStatistics ==
    /\ pc = "statistics"
    /\ files' = [files EXCEPT
                   !.statistics = Written(get_statistics(annotations, analyzer))]
    /\ pc' = "highlighted_texts"
    /\ UNCHANGED <<annotations, analyzer, reply>>
    /\ AnalyzerFrame

\* what lines 125-126 leave behind, given what extract_highlighted_texts did
HighlightedTextsDumped(texts) ==
    IF texts.raised = "none"
    THEN /\ files' = [files EXCEPT !.highlighted_texts = Written(texts.value)]
         /\ pc' = "annotations_by_page"
         /\ UNCHANGED reply
    ELSE /\ files' = [files EXCEPT !.highlighted_texts = Truncated]
         /\ pc' = "ready"
         /\ reply' = Raised("generate_report", texts.raised)

\* lines 125-126: highlighted_texts.json is opened, then the texts computed
WriteHighlightedTexts ==
    /\ pc = "highlighted_texts"
    /\ HighlightedTextsDumped(extract_highlighted_texts(analyzer))
    /\ UNCHANGED <<annotations, analyzer>>
    /\ AnalyzerFrame

\* lines 129-137: annotations_by_page.json
WriteAnnotationsByPage ==
    /\ pc = "annotations_by_page"
    /\ files' = [files EXCEPT !.annotations_by_page = Written(analyzer.by_page)]
    /\ pc' = "report"
    /\ UNCHANGED <<annotations, analyzer, reply>>
    /\ AnalyzerFrame

\* the File line reads the first record whatever the collection
SourceFileRaises_Unguarded(self_annotations) ==
    \/ self_annotations = <<>>
    \/ "source_file" \notin DOMAIN self_annotations[1]

\* line 144: self.annotations[0]['source_file'] if self.annotations else
\* 'Unknown'
SourceFileRaises(self_annotations) ==
    /\ self_annotations # <<>>
    /\ "source_file" \notin DOMAIN self_annotations[1]

SourceFile(self_annotations) ==
    IF self_annotations = <<>> THEN "Unknown" ELSE self_annotations[1]["source_file"]

\* the text of report.txt: the File line, the statistics, the texts
ReportText(self_annotations, self, texts) ==
    [file |-> SourceFile(self_annotations),
     statistics |-> get_statistics(self_annotations, self),
     highlighted_texts |-> texts]

\* lines 140-181: report.txt.  The two header lines are written, then the
\* File line is evaluated; the texts are computed once more at line 170
WriteReport ==
    /\ pc = "report"
    /\ IF SourceFileRaises(annotations)
       THEN /\ files' = [files EXCEPT
                           !.report = [state |-> "partial", content |-> <<>>]]
            /\ reply' = Raised("generate_report", "KeyError")
       ELSE IF extract_highlighted_texts(analyzer).raised # "none"
       THEN /\ files' = [files EXCEPT
                           !.report = [state |-> "partial", content |-> <<>>]]
            /\ reply' = Raised("generate_report", "KeyError")
       ELSE /\ files' = [files EXCEPT
                           !.report = Written(ReportText(annotations, analyzer,
                                       extract_highlighted_texts(analyzer).value))]
            /\ reply' = Returned("generate_report", "data/output/reports")
    /\ pc' = "ready"
    /\ UNCHANGED <<annotations, analyzer>>
    /\ AnalyzerFrame

\* the caller appends a record to the list it passed to the analyzer
CallerAppends ==
    /\ pc = "ready"
    /\ Len(annotations) < MaxAlias
    /\ \E r \in AggRecords : annotations' = Append(annotations, r)
    /\ UNCHANGED <<pc, analyzer, reply, files>>
    /\ AnalyzerFrame

\* the caller removes the first record of that list
CallerRemoves ==
    /\ pc = "ready"
    /\ annotations # <<>>
    /\ annotations' = Tail(annotations)
    /\ UNCHANGED <<pc, analyzer, reply, files>>
    /\ AnalyzerFrame


(***************************************************************************)
(* SpecAgg: an analyzer constructed over a collection, then queried and    *)
(* asked for its report.  SpecAlias: the caller goes on changing the list  *)
(* between the queries.                                                    *)
(***************************************************************************)
ExtractorIdle ==
    /\ doc = <<>>
    /\ openOk = TRUE
    /\ handle = "none"
    /\ page_num = 0
    /\ pending = <<>>
    /\ result = <<>>
    /\ stderr = <<>>
    /\ probe = NoProbe

InitAgg ==
    /\ annotations \in SeqsUpTo(AggRecords, MaxColl)
    /\ pc = "loaded"
    /\ analyzer = NoAnalyzer
    /\ reply = NoReply
    /\ files \in {NoFiles, [NoFiles EXCEPT !.dir = TRUE]}
    /\ cli = NoCli
    /\ search = NoSearchCall
    /\ ExtractorIdle

NextAgg ==
    \/ Construct
    \/ GetStatistics
    \/ ExtractHighlightedTexts
    \/ MakeReportDir
    \/ WriteStatistics
    \/ WriteHighlightedTexts
    \/ WriteAnnotationsByPage
    \/ WriteReport

SpecAgg == InitAgg /\ [][NextAgg]_vars

InitAlias ==
    /\ annotations \in SeqsUpTo(AggRecords, MaxAlias)
    /\ pc = "loaded"
    /\ analyzer = NoAnalyzer
    /\ reply = NoReply
    /\ files = NoFiles
    /\ cli = NoCli
    /\ search = NoSearchCall
    /\ ExtractorIdle

NextAlias ==
    \/ Construct
    \/ GetStatistics
    \/ ExtractHighlightedTexts
    \/ CallerAppends
    \/ CallerRemoves

SpecAlias == InitAlias /\ [][NextAlias]_vars

(***************************************************************************)
(* Properties of the analyzer (SpecAgg, SpecAlias).                        *)
(***************************************************************************)
\* the number of records of the collection whose field has the value
CountOf(anns, field, v) == Cardinality({i \in 1..Len(anns) : anns[i][field] = v})

ValuesOf(anns, field) == {anns[i][field] : i \in 1..Len(anns)}

\* the position of the first record whose field has the value
FirstIndexOf(anns, field, v) ==
    CHOOSE i \in 1..Len(anns) :
        anns[i][field] = v /\ \A j \in 1..(i - 1) : anns[j][field] # v

\* among the values of maximal count, the one seen first in the collection
FirstSeenMost(anns, field) ==
    CHOOSE v \in ValuesOf(anns, field) :
        \A w \in ValuesOf(anns, field) :
            \/ CountOf(anns, field, w) < CountOf(anns, field, v)
            \/ /\ CountOf(anns, field, w) = CountOf(anns, field, v)
               /\ FirstIndexOf(anns, field, v) <= FirstIndexOf(anns, field, w)

StatisticsReturned == reply.method = "get_statistics" /\ reply.raised = "none"

\* C11: when several pages (types) share the maximal count, get_statistics
\* reports the one whose first record comes earliest in the collection, not
\* the numerically smallest one.
C11_FirstSeenBreaksTies ==
    (StatisticsReturned /\ annotations # <<>>) =>
        /\ reply.value.page_with_most_annotations = FirstSeenMost(annotations, "page")
        /\ reply.value.most_common_type = FirstSeenMost(annotations, "type")

\* pages 2 and 1 tie, page 2 was seen first and is reported
C11_Witness ==
    /\ StatisticsReturned
    /\ annotations # <<>>
    /\ annotations[1]["page"] = 2
    /\ CountOf(annotations, "page", 1) = CountOf(annotations, "page", 2)
    /\ reply.value.page_with_most_annotations = 2
    /\ \E t \in ValuesOf(annotations, "type") :
          /\ t # annotations[1]["type"]
          /\ CountOf(annotations, "type", t) = CountOf(annotations, "type", annotations[1]["type"])
          /\ reply.value.most_common_type = annotations[1]["type"]

\* the sum of the counts of a {key: count} dict
RECURSIVE SumCounts(_)
SumCounts(counts) ==
    IF counts = <<>> THEN 0 ELSE Head(counts).count + SumCounts(Tail(counts))

\* C12: whatever the caller does to its list after the analyzer was built,
\* the statistics are those of the collection as it was at construction:
\* total_annotations equals the sum of the per-type counts and the number
\* of records grouped by page.
C12_SnapshotUnaffectedByCaller ==
    StatisticsReturned =>
        /\ reply.value.total_annotations = SumCounts(reply.value.annotation_types)
        /\ reply.value.total_annotations = SumCounts(Counts(analyzer.by_page))

\* one entry per Highlight record that carries a highlighted_text, in
\* collection order, its comment being the record's annotation content
RECURSIVE ExpectedHighlights(_)
ExpectedHighlights(anns) ==
    IF anns = <<>> THEN <<>>
    ELSE (IF Head(anns)["type"] = "Highlight" /\ "highlighted_text" \in DOMAIN Head(anns)
          THEN <<[page |-> Head(anns)["page"],
                  text |-> Head(anns)["highlighted_text"],
                  author |-> Head(anns)["author"],
                  comment |-> Head(anns)["contentAnnotation"]]>>
          ELSE <<>>)
         \o ExpectedHighlights(Tail(anns))

\* C13: on a collection of normalizer records extract_highlighted_texts
\* returns exactly the entries of the Highlight records carrying a
\* highlighted_text, in collection order, each with that record's
\* annotation content as its comment.
C13_HighlightEntriesReturned ==
    reply.method = "extract_highlighted_texts" =>
        /\ reply.raised = "none"
        /\ reply.value = ExpectedHighlights(annotations)

\* every entry of a {key: count} dict counts the records with that key
CountsMatch(counts, anns, field) ==
    \A i \in 1..Len(counts) : counts[i].count = CountOf(anns, field, counts[i].key)

\* C14: the statistics of a collection: total_annotations is its length,
\* pages_with_annotations the number of distinct pages in it, and the
\* per-type and the per-author counts each add up to total_annotations.
C14_StatisticsAddUp ==
    StatisticsReturned =>
        /\ reply.value.total_annotations = Len(annotations)
        /\ reply.value.pages_with_annotations = Cardinality(ValuesOf(annotations, "page"))
        /\ SumCounts(reply.value.annotation_types) = reply.value.total_annotations
        /\ SumCounts(reply.value.authors) = reply.value.total_annotations
        /\ CountsMatch(reply.value.annotation_types, annotations, "type")
        /\ CountsMatch(reply.value.authors, annotations, "author")

\* three records or more, on two pages, of several types and authors
C14_Witness ==
    /\ StatisticsReturned
    /\ reply.value.total_annotations > 2
    /\ reply.value.pages_with_annotations = 2
    /\ Len(reply.value.annotation_types) > 1
    /\ Len(reply.value.authors) > 1

ReportEnded == reply.method = "generate_report"

AllArtifactsWritten ==
    /\ files.dir
    /\ files.statistics.state = "written"
    /\ files.highlighted_texts.state = "written"
    /\ files.annotations_by_page.state = "written"
    /\ files.report.state = "written"

\* C15: on every collection of normalizer records, the non-empty ones
\* included, generate_report raises nothing and leaves the four artifacts
\* fully written.
C15_ReportCompletes ==
    ReportEnded => (reply.raised = "none" /\ AllArtifactsWritten)

\* C16: on the empty collection the statistics are 0, 0, None and None, and
\* generate_report raises nothing and writes the three structured
\* artifacts and a report saying there is nothing to report.
C16_EmptyCollection ==
    /\ (annotations = <<>> /\ StatisticsReturned) =>
          /\ reply.value.total_annotations = 0
          /\ reply.value.pages_with_annotations = 0
          /\ reply.value.most_common_type = None
          /\ reply.value.page_with_most_annotations = None
    /\ (annotations = <<>> /\ ReportEnded) =>
          /\ reply.raised = "none"
          /\ AllArtifactsWritten
          /\ files.statistics.content.total_annotations = 0
          /\ files.highlighted_texts.content = <<>>
          /\ files.annotations_by_page.content = <<>>
          /\ files.report.content.file = "Unknown"
          /\ files.report.content.statistics.total_annotations = 0
          /\ files.report.content.statistics.most_common_type = None
          /\ files.report.content.highlighted_texts = <<>>

\* the report of the empty collection has been written
C16_Witness ==
    /\ annotations = <<>>
    /\ ReportEnded
    /\ files.report.state = "written"

(***************************************************************************)
(* The command line entry points: main.py with --text, --annotations,      *)
(* --all or a positional PDF, the annotation extractor's main and the text *)
(* extractor's main.  cli holds one invocation:                            *)
(*   entry    which entry point and flag                                   *)
(*   path     what the input path names                                    *)
(*   output   -o was given (the two extractor mains)                       *)
(*   summary  -s was given (the annotation extractor's main)               *)
(*   step     position in the entry point                                  *)
(*   target   the path the running operation works on: the path of the     *)
(*            command line, or the one given at the menu's prompt          *)
(*   menu     the running operation was started from the interactive menu  *)
(*   rounds   the number of operations started from the menu so far        *)
(*   exited, status   the process has ended, with this exit status         *)
(*   stdout   the messages printed on standard output                      *)
(*   written  the output files created or rewritten                        *)
(* Messages on standard error go to stderr.                                *)
(***************************************************************************)
PathKinds == {"missing", "directory", "not_a_pdf", "pdf_without_annotations",
              "pdf_with_annotations"}

\* Path(p).is_file(), Path(p).exists(), fitz.open(p) returns
IsFile(path) == path \notin {"missing", "directory"}
Exists(path) == path # "missing"
Decodes(path) == path \in {"pdf_without_annotations", "pdf_with_annotations"}
\* extract_annotations returns a non-empty list
HasAnnotations(path) == path = "pdf_with_annotations"

MainEntries == {"main --text", "main --annotations", "main --all", "main pdf"}

MsgNotExist == "Error: The file does not exist"
MsgNotFound == "Error: PDF file not found"
MsgNoAnnotations == "No annotations found in the PDF."
MsgSaved == "Annotations saved"
MsgAnalysis == "Error analyzing annotations"
ErrText == "Error extracting text from PDF"

Invocation(entry, path, output, summary) ==
    [entry |-> entry, path |-> path, output |-> output, summary |-> summary,
     step |-> "start", target |-> path, menu |-> FALSE, rounds |-> 0,
     exited |-> FALSE, status |-> 0, stdout |-> {}, written |-> {}]

\* the entry point returns or calls sys.exit
Exit(c, status) == [c EXCEPT !.step = "done", !.exited = TRUE, !.status = status]
Say(c, msg) == [c EXCEPT !.stdout = @ \cup {msg}]
Write(c, file) == [c EXCEPT !.written = @ \cup {file}]

\* process_all, or the --all branch of main
InProcessAll(c) == c.entry = "main --all" \/ c.menu

\* the operation is over: back to the menu it was started from, or main
\* returns
Done(c) ==
    IF c.menu THEN [c EXCEPT !.step = "menu", !.menu = FALSE] ELSE Exit(c, 0)

CliFrame == UNCHANGED <<doc, openOk, pc, handle, page_num, pending, annotations,
                        result, probe, analyzer, reply, files, search>>

\* main.py: file_exists fails; the message is printed and main returns
MainRejectsPath ==
    /\ cli.entry \in MainEntries
    /\ cli.step = "start"
    /\ ~IsFile(cli.path)
    /\ cli' = Exit(Say(cli, MsgNotExist), 0)
    /\ UNCHANGED stderr
    /\ CliFrame

\* main.py: file_exists holds
MainAcceptsPath ==
    /\ cli.entry \in MainEntries
    /\ cli.step = "start"
    /\ IsFile(cli.path)
    /\ cli' = [cli EXCEPT !.step =
                 IF cli.entry \in {"main --text", "main --all"} THEN "text"
                 ELSE IF cli.entry = "main --annotations" THEN "annotations"
                 ELSE "menu"]
    /\ UNCHANGED stderr
    /\ CliFrame

\* main.py: the user leaves the interactive menu with choice 0
MainMenuQuit ==
    /\ cli.step = "menu"
    /\ cli' = Exit(cli, 0)
    /\ UNCHANGED stderr
    /\ CliFrame

\* main.py: choice 4 of the menu, process_all: the path comes from
\* get_pdf_path; file_exists fails (message, back to the menu) or holds
MainMenuProcessAll ==
    /\ cli.step = "menu"
    /\ cli.rounds < MaxRounds
    /\ \E p \in PathKinds :
          cli' = IF IsFile(p)
                 THEN [cli EXCEPT !.target = p, !.menu = TRUE, !.step = "text",
                                  !.rounds = @ + 1]
                 ELSE [Say(cli, MsgNotExist) EXCEPT !.target = p, !.rounds = @ + 1]
    /\ UNCHANGED stderr
    /\ CliFrame

\* main.extract_text after the check: the text is extracted (the empty
\* text with a diagnostic when the file does not decode) and saved
MainExtractText ==
    /\ cli.entry \in MainEntries
    /\ cli.step = "text"
    /\ stderr' = IF Decodes(cli.target) THEN stderr ELSE Append(stderr, ErrText)
    /\ cli' = IF InProcessAll(cli)
              THEN [Write(cli, "text") EXCEPT !.step = "annotations"]
              ELSE Done(Write(cli, "text"))
    /\ CliFrame

\* the export is saved, and its path returned, also for an empty collection
MainExtractAnnotations_SavesEmpty ==
    /\ cli.entry \in MainEntries
    /\ cli.step = "annotations"
    /\ stderr' = IF Decodes(cli.target) THEN stderr ELSE Append(stderr, ErrPDF)
    /\ cli' = IF InProcessAll(cli)
              THEN [Write(cli, "json") EXCEPT !.step = "analyze"]
              ELSE Done(Write(cli, "json"))
    /\ CliFrame

\* main.extract_annotations after the check
MainExtractAnnotations ==
    /\ cli.entry \in MainEntries
    /\ cli.step = "annotations"
    /\ stderr' = IF Decodes(cli.target) THEN stderr ELSE Append(stderr, ErrPDF)
    /\ cli' = IF ~HasAnnotations(cli.target)
              THEN Done(Say(cli, MsgNoAnnotations))
              ELSE IF InProcessAll(cli)
              THEN [Write(cli, "json") EXCEPT !.step = "analyze"]
              ELSE Done(Write(cli, "json"))
    /\ CliFrame

\* main.analyze_annotations on the file just saved: generate_report raises
\* on a non-empty collection of normalizer records, which is caught
MainAnalyze ==
    /\ cli.step = "analyze"
    /\ cli' = Done(Say(Write(cli, "reports"), MsgAnalysis))
    /\ UNCHANGED stderr
    /\ CliFrame

\* annotation_extractor.main: PDFAnnotationExtractor(args.pdf_file)
AnnotationCliConstruct ==
    /\ cli.entry = "annotation_extractor"
    /\ cli.step = "start"
    /\ IF Exists(cli.path)
       THEN /\ cli' = [cli EXCEPT !.step = "annotations"]
            /\ UNCHANGED stderr
       ELSE /\ cli' = Exit(cli, 1)
            /\ stderr' = Append(stderr, MsgNotFound)
    /\ CliFrame

\* annotation_extractor.main: extractor.extract_annotations()
AnnotationCliExtract ==
    /\ cli.entry = "annotation_extractor"
    /\ cli.step = "annotations"
    /\ stderr' = IF Decodes(cli.path) THEN stderr ELSE Append(stderr, ErrPDF)
    /\ cli' = [cli EXCEPT !.step = "save"]
    /\ CliFrame

Saved(c) == IF c.output THEN Say(Write(c, "json"), MsgSaved) ELSE c
Summarized(c) ==
    IF (c.summary \/ ~c.output) /\ ~HasAnnotations(c.path)
    THEN Say(c, MsgNoAnnotations) ELSE c

\* annotation_extractor.main: save_to_json under -o, then the summary
AnnotationCliSave ==
    /\ cli.entry = "annotation_extractor"
    /\ cli.step = "save"
    /\ cli' = Exit(Summarized(Saved(cli)), 0)
    /\ UNCHANGED stderr
    /\ CliFrame

\* text_extractor.main: pdf_path.exists()
TextCliCheck ==
    /\ cli.entry = "text_extractor"
    /\ cli.step = "start"
    /\ IF Exists(cli.path)
       THEN /\ cli' = [cli EXCEPT !.step = "text"]
            /\ UNCHANGED stderr
       ELSE /\ cli' = Exit(cli, 1)
            /\ stderr' = Append(stderr, MsgNotExist)
    /\ CliFrame

\* text_extractor.main: extract_text_from_pdf
TextCliExtract ==
    /\ cli.entry = "text_extractor"
    /\ cli.step = "text"
    /\ stderr' = IF Decodes(cli.path) THEN stderr ELSE Append(stderr, ErrText)
    /\ cli' = [cli EXCEPT !.step = "save"]
    /\ CliFrame

\* text_extractor.main: save_text, then the end of main
TextCliSave ==
    /\ cli.entry = "text_extractor"
    /\ cli.step = "save"
    /\ cli' = Exit(Write(cli, "text"), 0)
    /\ UNCHANGED stderr
    /\ CliFrame

(***************************************************************************)
(* SpecCli: one invocation of an entry point on a path.                    *)
(***************************************************************************)
Invocations ==
    {Invocation(e, p, FALSE, FALSE) : e \in MainEntries, p \in PathKinds}
    \cup {Invocation("annotation_extractor", p, o, s) :
            p \in PathKinds, o \in BOOLEAN, s \in BOOLEAN}
    \cup {Invocation("text_extractor", p, o, FALSE) : p \in PathKinds, o \in BOOLEAN}

InitCli ==
    /\ cli \in Invocations
    /\ pc = "cli"
    /\ annotations = <<>>
    /\ analyzer = NoAnalyzer
    /\ reply = NoReply
    /\ files = NoFiles
    /\ search = NoSearchCall
    /\ ExtractorIdle

NextCli ==
    \/ MainRejectsPath
    \/ MainAcceptsPath
    \/ MainMenuQuit
    \/ MainMenuProcessAll
    \/ MainExtractText
    \/ MainExtractAnnotations
    \/ MainAnalyze
    \/ AnnotationCliConstruct
    \/ AnnotationCliExtract
    \/ AnnotationCliSave
    \/ TextCliCheck
    \/ TextCliExtract
    \/ TextCliSave

SpecCli == InitCli /\ [][NextCli]_vars

(***************************************************************************)
(* Properties of the entry points (SpecCli).                               *)
(***************************************************************************)
\* the path is missing or names a directory
NotAFile == cli.entry # "none" /\ cli.path \in {"missing", "directory"}

\* an error message was printed, or the exit status is not 0
ErrorReported ==
    \/ cli.status # 0
    \/ cli.stdout \cap {MsgNotExist, MsgNotFound} # {}
    \/ stderr # <<>>

\* C17: an entry point given a path that cannot be read as a file ends with
\* a non-zero exit status.
C17_UnreadablePathExitsNonZero ==
    (NotAFile /\ cli.exited) => cli.status # 0

\* C18: when the path is missing or a directory, the operation fails with
\* an error reported and no output file is created or modified.
C18_NoOutputWithoutInput ==
    NotAFile =>
        /\ cli.written = {}
        /\ cli.exited => ErrorReported

(***************************************************************************)
(* Properties of a run whose document does not open (SpecOpen).            *)
(***************************************************************************)
\* C19: when the document fails to open, extract_annotations raises
\* nothing: it returns the empty collection after printing one diagnostic.
C19_OpenFailureReturnsEmpty ==
    (~openOk /\ pc # "start") =>
        /\ pc = "returned"
        /\ result = <<>>
        /\ stderr = <<ErrPDF>>

\* a document with pages failed to open and the method has returned
C19_Witness ==
    /\ ~openOk
    /\ doc # <<>>
    /\ pc = "returned"
    /\ stderr # <<>>

(***************************************************************************)
(* SpecTitle: _search_title_in_page applied to one page.  The page text is *)
(* put together from what precedes the header, the header and what follows *)
(* it; the blocks carry the same lines, as one block or as one block per   *)
(* line.                                                                   *)
(***************************************************************************)
RECURSIVE SplitLines(_)
SplitAt(text, nl) ==
    IF nl = -1 THEN <<text>>
    ELSE <<slice(text, 0, nl)>> \o SplitLines(slice(text, nl + 1, Len(text)))

\* the lines of a text, without their newlines
SplitLines(text) ==
    IF text = <<>> THEN <<>> ELSE SplitAt(text, find(text, <<NL>>, 0))

NonEmptyLines(text) == SelectSeq(SplitLines(text), LAMBDA l : l # <<>>)

\* one line of one span per line of text
SpanLines(lines) == [i \in 1..Len(lines) |-> <<PlainSpan(lines[i])>>]

OneBlock(text) ==
    IF NonEmptyLines(text) = <<>> THEN <<>>
    ELSE <<TextBlock(10, SpanLines(NonEmptyLines(text)))>>

BlockPerLine(text) ==
    [i \in 1..Len(NonEmptyLines(text)) |->
        TextBlock(10 * i, <<<<PlainSpan(NonEmptyLines(text)[i])>>>>)]

TextsBefore == {<<>>, <<"a", NL>>, <<"a", " ">>}

TextHeaders ==
    { <<>>,
      CPN,
      CPN \o <<" ", "x">>,
      CPN \o <<DEG, "7", ":", " ", "t">>,
      <<"C", "P", NL, "N", DEG, "1">>,
      exact_titles[1] }

TextsAfter == {<<>>, <<NL>>, <<" ", NL, "b", NL>>, <<NL, "b">>}

PageTexts == {b \o h \o a : b \in TextsBefore, h \in TextHeaders, a \in TextsAfter}

TitlePages ==
    {Page(TRUE, t, OneBlock(t)) : t \in PageTexts}
    \cup {Page(TRUE, t, BlockPerLine(t)) : t \in PageTexts}

\* the marker word "Objetivo" of the second pass, a single character here
OBJETIVO == "Objetivo"

\* pages without any case header, whose blocks lie above (y 0 and 1) or
\* below (y 10 and more) an annotation at RectValue
PageHeadingAbove ==
    Page(TRUE, <<"h", NL, "a", NL>>,
         <<TextBlock(1, <<<<HeadingSpan(<<" ", "h">>, 0)>>>>),
           TextBlock(20, <<<<PlainSpan(<<"a">>)>>>>)>>)

PageTwoHeadingsAbove ==
    Page(TRUE, <<"g", NL, "h", NL, "a", NL>>,
         <<TextBlock(0, <<<<HeadingSpan(<<"g">>, 0)>>>>),
           TextBlock(1, <<<<HeadingSpan(<<"h">>, 0)>>>>),
           TextBlock(20, <<<<PlainSpan(<<"a">>)>>>>)>>)

PageBoldAbove ==
    Page(TRUE, <<"b", NL, "a", NL>>,
         <<TextBlock(1, <<<<Span(<<"b">>, 9, 2)>>>>),
           TextBlock(20, <<<<PlainSpan(<<"a">>)>>>>)>>)

PageMarkerAbove ==
    Page(TRUE, <<OBJETIVO, NL, "a", NL>>,
         <<TextBlock(1, <<<<PlainSpan(<<OBJETIVO>>)>>>>),
           TextBlock(20, <<<<PlainSpan(<<"a">>)>>>>)>>)

PageHeadingBelow ==
    Page(TRUE, <<"a", NL, "h", NL>>,
         <<TextBlock(1, <<<<PlainSpan(<<"a">>)>>>>),
           TextBlock(20, <<<<HeadingSpan(<<"h">>, 0)>>>>)>>)

HeadingPages ==
    {PageHeadingAbove, PageTwoHeadingsAbove, PageBoldAbove, PageMarkerAbove,
     PageHeadingBelow}

\* the annotation whose page is searched
SearchAnnot == Annot(TRUE, FullInfo, "Text", "named", "none", TRUE, TRUE, ClipEmpty)

\* title = self._search_title_in_page(page) on the page of the document
SearchPage ==
    /\ pc = "search"
    /\ ~search.called
    /\ search' = [called |-> TRUE, page |-> doc[1].content,
                  out |-> SearchTitleInPage(doc[1].content)]
    /\ UNCHANGED <<doc, openOk, pc, handle, page_num, pending, annotations,
                   result, stderr, probe, analyzer, reply, files, cli>>

InitTitle ==
    /\ doc \in {<<DocPage(TRUE, TRUE, p, <<>>)>> : p \in TitlePages \cup HeadingPages}
    /\ openOk = TRUE
    /\ pc = "search"
    /\ handle = "open"
    /\ page_num = 0
    /\ pending = <<SearchAnnot>>
    /\ annotations = <<>>
    /\ result = <<>>
    /\ stderr = <<>>
    /\ probe = NoProbe
    /\ OthersIdle

NextTitle == SearchPage

SpecTitle == InitTitle /\ [][NextTitle]_vars

(***************************************************************************)
(* Properties of the per-page search (SpecTitle).                          *)
(***************************************************************************)
NoCanonicalTitle(text) ==
    \A k \in 1..Len(exact_titles) : ~contains(text, exact_titles[k])

\* offset of the end of the line that holds offset i
EndOfLine(text, nl) == IF nl = -1 THEN Len(text) ELSE nl

\* the text from the first "CP N" up to the next newline, or to the end of
\* the text when no newline follows, trimmed
CaseLine(text) ==
    strip(slice(text, find(text, CPN, 0),
                EndOfLine(text, find(text, <<NL>>, find(text, CPN, 0)))))

\* C20: a page whose text holds no canonical title but holds "CP N",
\* wherever it is and also on a last line that no newline ends, yields the
\* text from the first "CP N" to the end of its line, trimmed, and never
\* 'no title'.
C20_CaseLineReturned ==
    (/\ search.called
     /\ NoCanonicalTitle(search.page.text)
     /\ contains(search.page.text, CPN)) =>
        /\ search.out.title = CaseLine(search.page.text)
        /\ search.out.title # <<>>
        /\ search.out.diags = <<>>

\* no text-based strategy applies to the page text
NoTextStrategy(text) ==
    /\ NoCanonicalTitle(text)
    /\ ~contains(text, CPN)
    /\ ~FirstRegexMatch(text).found

\* top of the rectangle of the annotation whose page is searched
AnnotTop == Coordinates(pending[1]).y0

\* the block has a span in a font larger than 10 or in bold, or holds a
\* marker word
LooksLikeTitle(block) ==
    \/ \E i \in 1..Len(block.lines) : \E j \in 1..Len(block.lines[i]) :
          block.lines[i][j].size > 10 \/ is_bold(block.lines[i][j].flags)
    \/ contains(BlockText(block.lines), <<OBJETIVO>>)

\* the positions of the title candidates strictly above the annotation
CandidatesAbove(blocks, y) ==
    {k \in 1..Len(blocks) :
        /\ blocks[k].hasLines
        /\ blocks[k].y < y
        /\ strip(BlockText(blocks[k].lines)) # <<>>
        /\ LooksLikeTitle(blocks[k])}

\* the trimmed text of the candidate closest to the annotation, or no title
ClosestAbove(blocks, cands) ==
    IF cands = {} THEN <<>>
    ELSE strip(BlockText(blocks[CHOOSE k \in cands :
                                  \A j \in cands : blocks[j].y <= blocks[k].y].lines))

\* C21: on a page to which no text-based strategy applies, the search
\* returns the trimmed text of the title candidate (a large or bold span, or
\* a marker word) that lies strictly above the annotation and closest to
\* it, and no title only when there is no such block.
C21_ClosestHeadingAbove ==
    (search.called /\ NoTextStrategy(search.page.text)) =>
        search.out.title =
            ClosestAbove(search.page.blocks, CandidatesAbove(search.page.blocks, AnnotTop))

(***************************************************************************)
(* Properties of the process-all flow (SpecCli).                           *)
(***************************************************************************)
\* one step of the process-all flow keeps the order text extraction,
\* annotation extraction, analysis
ProcessAllStep ==
    InProcessAll(cli) =>
        /\ cli.step = "text" =>
              /\ cli'.step = "annotations"
              /\ cli'.written = cli.written \cup {"text"}
        /\ cli'.step = "annotations" => cli.step \in {"text", "annotations"}
        /\ (cli.step = "annotations" /\ HasAnnotations(cli.target)) =>
              /\ cli'.step = "analyze"
              /\ cli'.written = cli.written \cup {"json"}
        /\ (cli.step = "annotations" /\ ~HasAnnotations(cli.target)) =>
              /\ cli'.step \in {"done", "menu"}
              /\ cli'.written = cli.written
        /\ cli'.step = "analyze" => cli.step \in {"annotations", "analyze"}
        /\ "reports" \in cli'.written \ cli.written => cli.step = "analyze"
        /\ cli.step = "analyze" => cli'.step \in {"done", "menu"}

\* C22: in the process-all flow (menu choice 4 and --all) text extraction
\* comes first, then annotation extraction, then the analysis; the analysis
\* starts only from the step that wrote the annotation export, and when the
\* annotation extraction yields nothing (no annotations, or the file does
\* not decode) the flow ends there, with no export and no report written.
C22_ProcessAllOrder == [][ProcessAllStep]_vars

\* the flow was run from the menu on a file with annotations, through to the
\* report, and then on a file that does not decode, which ended it after
\* the text extraction
C22_Witness ==
    /\ cli.entry = "main pdf"
    /\ cli.step = "menu"
    /\ cli.rounds = 2
    /\ ~Decodes(cli.target)
    /\ IsFile(cli.target)
    /\ cli.written = {"text", "json", "reports"}
    /\ MsgNoAnnotations \in cli.stdout

=============================================================================
